---- MODULE Spec2Model ----
(***************************************************************************)
(* Model of the wb-rules rule engine (src/wbrules/rule.go) together with   *)
(* the script runtime that wraps rule conditions (src/scripts/lib.js).     *)
(*                                                                         *)
(* The engine is single threaded: RunRules iterates the rule list and      *)
(* calls Check on every rule; a rule body is a script callback that may    *)
(* re-enter the engine (runRules, defineRule), so a pass is modelled as a  *)
(* stack of frames and every Check is one step.                            *)
(***************************************************************************)
EXTENDS Integers, Sequences, FiniteSets, TLC

\* ------------------------------------------------------------------ bounds
MaxDefines == 2      \* defineRule calls in a behaviour of Spec
MaxRegistryDefines == 3   \* defineRule calls in a behaviour of RegistrySpec
MaxPasses == 2       \* passes the engine loop starts in a behaviour
MaxNested == 1       \* runRules calls made by rule bodies in a behaviour
MaxBodyOps == 1      \* engine primitives one body invocation calls
MaxQueue == 1        \* cell changes waiting in the change channel
MaxTimers == 3       \* startTimer calls in a behaviour
MaxTicks == 3        \* ticks the platform timers deliver in a behaviour
MaxSpawns == 2       \* spawn calls in a behaviour
MaxShapeDefines == 2 \* defineRule calls in a behaviour of DefineSpec
MaxLoopQueue == 2    \* cell changes waiting in the change channel, LoopSpec
MaxHeaterPublishes == 5 \* values the bus delivers in a behaviour of HeaterSpec
MaxHeaterQueue == 2  \* cell changes waiting in the change channel, HeaterSpec

\* --------------------------------------------------------------- constants
RULE_TYPE_NONE == "none"                       \* destroyed
RULE_TYPE_LEVEL_TRIGGERED == "level"
RULE_TYPE_EDGE_TRIGGERED == "edge"
RULE_TYPE_ON_CELL_CHANGE == "onChange"

Names == {"r1", "r2"}

Slash == "/"
RefAx == <<"A", Slash, "x">>
RefBy == <<"B", Slash, "y">>
RefBad == <<"A">>
RefNoDev == <<Slash, "x">>

\* a cell is the pair (device name, cell name)
CellAx == <<(<<"A">>), (<<"x">>)>>
CellBy == <<(<<"B">>), (<<"y">>)>>
AllCells == {CellAx, CellBy}
\* the cell getCell creates for the reference "/x"
CellNoDev == <<(<<>>), (<<"x">>)>>
\* the cells of the model: those of the bus and those getCell creates
KnownCells == AllCells \cup {CellNoDev}
NoCell == <<>>

NilValue == "nil"
\* the value a cell holds before the bus has delivered one
DefaultValue == "default"
Values == {"v1"}

\* ------------------------------------------------------------------- state
VARIABLES
  cellComplete,      \* Cell.IsComplete() of every cell of the model
  cellValue,         \* Cell.Value()
  cellChange,        \* the change channel: CellSpecs not yet processed
  chanCap,           \* how many CellSpecs the change channel holds
  chanState,         \* the change channel: "open", "closed" or "released"
  heater,            \* the engine running samplerules.js's rule heaterOn
  ready,             \* the initial RunRules(nil) was started by WhenReady
  rules,             \* the Rule objects ever allocated, by object id
  ruleMap,           \* engine.ruleMap: name -> object id
  ruleList,          \* engine.ruleList
  ruleFuncs,         \* keys present in the "ruleFuncs" callback list
  callbackIndex,     \* engine.callbackIndex
  cellToRuleMap,     \* engine.cellToRuleMap: cell -> list of object ids
  rulesWithoutCells, \* engine.rulesWithoutCells
  notedCells,        \* engine.notedCells (Nil or a map of cells)
  stack,             \* the RunRules invocations in progress, innermost last
  panicked,          \* a Go panic was raised
  defines,           \* defineRule calls so far (bounded by MaxDefines)
  passes,            \* passes started by the loop so far (MaxPasses)
  nested,            \* runRules calls made by scripts so far (MaxNested)
  timers,            \* engine.timers: entry ids, NoEntry for a nil slot
  timerEntries,      \* the TimerEntry objects ever allocated
  timerCallbacks,    \* the "ruleEngineTimers" callback list: key -> callback
  waiters,           \* the goroutine started by each startTimer call
  callQueue,         \* closures handed to CallSync, not yet run
  ticks,             \* ticks delivered so far (bounded by MaxTicks)
  lastStart,         \* history: the last startTimer call
  tev,               \* history: the stopTimer / fireTimer call just made
  stopped,           \* history: timers whose id was given to stopTimer
  inFlight,          \* history: those of them with a tick in callQueue then
  cbCalls,           \* history: invocations of each timer's callback
  procs,             \* the goroutine started by each spawn call
  processes,         \* keys present in the "processes" callback list
  procCalls,         \* closures of exited processes handed to CallSync
  pev,               \* history: the process callback just invoked
  \* history variables, written but never read by the engine
  ev,                \* the last Check call
  gh,                \* per rule object: what its evaluations did
  defOrder,          \* names in the order they were first defined
  done               \* the last pass that returned

vars == <<cellComplete, cellValue, cellChange, chanCap, chanState, heater,
          ready, rules, ruleMap, ruleList,
          ruleFuncs, callbackIndex, cellToRuleMap, rulesWithoutCells,
          notedCells, stack, panicked, defines, passes, nested, ev, gh,
          defOrder, done, timers, timerEntries, timerCallbacks, waiters,
          callQueue, ticks, lastStart, tev, stopped, inFlight, cbCalls,
          procs,
          processes, procCalls, pev>>

cellVars == <<cellComplete, cellValue>>
ruleVars == <<rules, ruleMap, ruleList, ruleFuncs, callbackIndex,
              cellToRuleMap, rulesWithoutCells>>
histVars == <<gh, defOrder>>
timerVars == <<timers, timerEntries, timerCallbacks, waiters, callQueue,
               ticks, lastStart, tev, stopped, inFlight, cbCalls>>
spawnVars == <<procs, processes, procCalls, pev>>
engineVars == <<cellComplete, cellValue, cellChange, chanCap, chanState,
                heater, ready, rules, ruleMap,
                ruleList, ruleFuncs, callbackIndex, cellToRuleMap,
                rulesWithoutCells, notedCells, stack, defines, passes, nested,
                ev, gh, defOrder, done>>

Nil == [isNil |-> TRUE, cells |-> {}]

\* --------------------------------------------------------------- newRule
\* strings.SplitN(fullName, "/", 2) on a name given as a token sequence
FirstSlash(ref) ==
  IF \E i \in 1..Len(ref) : ref[i] = Slash
    THEN CHOOSE i \in 1..Len(ref) :
           ref[i] = Slash /\ \A j \in 1..(i - 1) : ref[j] # Slash
    ELSE 0

SplitN2(ref) ==
  IF FirstSlash(ref) = 0 THEN <<ref>>
  ELSE <<SubSeq(ref, 1, FirstSlash(ref) - 1),
         SubSeq(ref, FirstSlash(ref) + 1, Len(ref))>>

\* engine.getCell(devName, cellName)
getCell(devName, cellName) == <<devName, cellName>>

\* the definitions a script may pass to defineRule
NoOcc == [has |-> FALSE, isString |-> FALSE, names |-> <<>>]
Def(t, w, a, o) == [then |-> t, when |-> w, asSoonAs |-> a, occ |-> o]
OccAx == [has |-> TRUE, isString |-> TRUE, names |-> <<RefAx>>]
OccAxBy == [has |-> TRUE, isString |-> FALSE, names |-> <<RefAx, RefBy>>]
OccByBad == [has |-> TRUE, isString |-> FALSE, names |-> <<RefBy, RefBad>>]
\* the valid definitions
Defs ==
  { Def(TRUE, TRUE, FALSE, NoOcc),        \* when
    Def(TRUE, FALSE, TRUE, NoOcc),        \* asSoonAs
    Def(TRUE, FALSE, FALSE, OccAx) }      \* onCellChange: "A/x"
OccEmpty == [has |-> TRUE, isString |-> FALSE, names |-> <<>>]
OccBad == [has |-> TRUE, isString |-> TRUE, names |-> <<RefBad>>]
OccNoDev == [has |-> TRUE, isString |-> TRUE, names |-> <<RefNoDev>>]
\* every shape of definition: each of then / when / asSoonAs present or not,
\* and onCellChange absent, a string or a list
ShapeDefs ==
  { Def(t, w, a, o) : t \in BOOLEAN, w \in BOOLEAN, a \in BOOLEAN,
                      o \in {NoOcc, OccAx, OccAxBy, OccByBad, OccEmpty,
                              OccBad, OccNoDev} }
\* valid and invalid definitions
AllDefs ==
  Defs \cup
  { Def(TRUE, FALSE, FALSE, OccAxBy),     \* onCellChange: ["A/x", "B/y"]
    Def(TRUE, TRUE, TRUE, NoOcc),         \* when and asSoonAs
    Def(TRUE, FALSE, FALSE, OccByBad) }   \* onCellChange: ["B/y", "A"]

\* engine.storeRuleCell
storeRuleCell(c2r, rule, cell) == [c2r EXCEPT ![cell] = Append(@, rule)]

\* the loop over cellNames in newRule: returns the cells resolved, the index
\* as left by storeRuleCell, and whether every name had two parts
RECURSIVE OccLoop(_, _, _, _, _)
OccLoop(names, i, cells, c2r, obj) ==
  IF i > Len(names) THEN [ok |-> TRUE, cells |-> cells, c2r |-> c2r]
  ELSE LET parts == SplitN2(names[i]) IN
       IF Len(parts) # 2 THEN [ok |-> FALSE, cells |-> cells, c2r |-> c2r]
       ELSE LET cell == getCell(parts[1], parts[2]) IN
            OccLoop(names, i + 1, Append(cells, cell),
                    storeRuleCell(c2r, obj, cell), obj)

BlankRule(name) ==
  [name |-> name, cond |-> 0, then |-> 0, onCellChange |-> <<>>,
   ruleType |-> RULE_TYPE_NONE, firstRun |-> TRUE, prevCondValue |-> FALSE,
   oldCellValue |-> NilValue, shouldCheck |-> FALSE]

\* newRule(engine, name, defIndex): the rule built, and the engine state its
\* storeCallback / storeRuleCell calls leave behind (also when it fails)
newRule(name, def, obj) ==
  LET base == [ok |-> FALSE, rule |-> BlankRule(name), funcs |-> ruleFuncs,
               cbIndex |-> callbackIndex, c2r |-> cellToRuleMap]
      thenH == callbackIndex
      condH == callbackIndex + 1
      withThen == [base EXCEPT !.rule.then = thenH,
                               !.funcs = ruleFuncs \cup {thenH},
                               !.cbIndex = callbackIndex + 1]
      withCond(t) == [withThen EXCEPT !.ok = TRUE,
                                      !.rule.cond = condH,
                                      !.rule.ruleType = t,
                                      !.funcs = ruleFuncs \cup {thenH, condH},
                                      !.cbIndex = callbackIndex + 2]
      loop == OccLoop(def.occ.names, 1, <<>>, cellToRuleMap, obj)
  IN
  IF ~def.then THEN base
  ELSE IF def.when THEN
         IF def.asSoonAs \/ def.occ.has THEN withThen
         ELSE withCond(RULE_TYPE_LEVEL_TRIGGERED)
  ELSE IF def.asSoonAs THEN
         IF def.occ.has THEN withThen
         ELSE withCond(RULE_TYPE_EDGE_TRIGGERED)
  ELSE IF def.occ.has THEN
         IF ~def.occ.isString /\ Len(def.occ.names) = 0 THEN withThen
         ELSE [withThen EXCEPT !.ok = loop.ok,
                               !.rule.ruleType = RULE_TYPE_ON_CELL_CHANGE,
                               !.rule.onCellChange = loop.cells,
                               !.c2r = loop.c2r]
  ELSE withThen

\* Rule.Destroy that leaves the body callback in the callback list
Destroy_keepThen(rule, funcs) ==
  [rule  |-> [rule EXCEPT !.ruleType = RULE_TYPE_NONE],
   funcs |-> funcs \ (IF rule.cond # 0 THEN {rule.cond} ELSE {})]

\* Rule.Destroy
Destroy(rule, funcs) ==
  [rule  |-> [rule EXCEPT !.ruleType = RULE_TYPE_NONE],
   funcs |-> (funcs \ (IF rule.cond # 0 THEN {rule.cond} ELSE {}))
                    \ (IF rule.then # 0 THEN {rule.then} ELSE {})]


\* ------------------------------------------------------------------- Init
NoEv ==
  [obj |-> 0, type |-> RULE_TYPE_NONE, cell |-> NoCell, complete |-> FALSE,
   skipped |-> FALSE, evaluated |-> FALSE, cur |-> FALSE, fired |-> 0,
   noted |-> {}, hitInc |-> FALSE, prevWas |-> "none", prevInc |-> NoCell,
   hadRead |-> FALSE, hadNone |-> FALSE, inW |-> FALSE, atStart |-> FALSE,
   depth |-> 0, out |-> "none", firing |-> "none", prevCond |-> FALSE,
   oldValue |-> NilValue, newValue |-> NilValue, firedBefore |-> FALSE,
   seenBefore |-> NilValue, access |-> NoCell]

NoDone ==
  [cell |-> NoCell, complete |-> FALSE, n |-> 0, checked |-> <<>>,
   order |-> <<>>, owedAll |-> {}, owedComp |-> {}, owedNone |-> {},
   hadComp |-> FALSE, hadNone |-> FALSE, redefBefore |-> FALSE, count |-> 0]

NoGh ==
  [prev |-> "none", reads |-> {}, readNone |-> FALSE, lastInc |-> NoCell,
   fires |-> FALSE, seen |-> NilValue,
   ok |-> FALSE, def |-> Def(FALSE, FALSE, FALSE, NoOcc),
   type |-> RULE_TYPE_NONE]

NoEntry == 0
NoStart == [n |-> 0, expect |-> 0, lenBefore |-> 0, lenAfter |-> 0,
            full |-> FALSE]

NoTev == [kind |-> "none", n |-> 0, w |-> 0, invoked |-> 0, targets |-> {},
          wasStopped |-> FALSE, unchanged |-> TRUE, thread |-> "none"]

NO_CALLBACK == 0
NoArgs == [exitStatus |-> 0, capturedOutput |-> "absent",
           capturedErrorOutput |-> "absent"]
NoPev == [p |-> 0, args |-> NoArgs]

\* ------------------------------------------------ samplerules.js: heaterOn
\* the cells the condition of heaterOn reads, and the one its body writes
HeaterCells == {"stabSettings/enabled", "Weather/Temp 1",
                "stabSettings/lowThreshold", "Relays/Relay 1"}
\* the nil CellSpec of RunRules(nil)
NoCellSpec == "nil"
\* Weather/Temp 1 before the bus has delivered a value
NoTemp == 0
Temps == {17, 18, 21}
\* value: 20 of the cell lowThreshold of the virtual device stabSettings
lowThreshold == 20

\* the script is loaded: stabSettings is defined with enabled false, the
\* rule heaterOn is a blank edge-triggered rule, and nothing has run
HeaterInit ==
  [enabled |-> FALSE, temp |-> NoTemp, relay |-> FALSE, echo |-> FALSE,
   queue |-> <<>>, started |-> FALSE,
   rule |-> [firstRun |-> TRUE, prevCondValue |-> FALSE,
             shouldCheck |-> FALSE],
   cellToRule |-> {}, withoutCells |-> FALSE,
   fires |-> 0, log |-> <<>>, quiet |-> TRUE]

\* NewRuleEngine, with a change channel of the given capacity; the model has
\* delivered no value yet
InitEngine(cap) ==
  /\ chanCap = cap
  /\ chanState = "open"
  /\ heater = HeaterInit
  /\ cellComplete = [c \in KnownCells |-> FALSE]
  /\ cellValue = [c \in KnownCells |-> DefaultValue]
  /\ cellChange = <<>>
  /\ ready = FALSE
  /\ rules = <<>>
  /\ ruleMap = [n \in Names |-> 0]
  /\ ruleList = <<>>
  /\ ruleFuncs = {}
  /\ callbackIndex = 1
  /\ cellToRuleMap = [c \in KnownCells |-> <<>>]
  /\ rulesWithoutCells = {}
  /\ notedCells = Nil
  /\ stack = <<>>
  /\ panicked = "no"
  /\ defines = 0
  /\ passes = 0
  /\ nested = 0
  /\ ev = NoEv
  /\ gh = <<>>
  /\ defOrder = <<>>
  /\ done = NoDone
  /\ timers = <<>>
  /\ timerEntries = <<>>
  /\ timerCallbacks = <<>>
  /\ waiters = <<>>
  /\ callQueue = <<>>
  /\ ticks = 0
  /\ lastStart = NoStart
  /\ tev = NoTev
  /\ stopped = {}
  /\ inFlight = {}
  /\ cbCalls = <<>>
  /\ procs = <<>>
  /\ processes = {}
  /\ procCalls = <<>>
  /\ pev = NoPev

Init == InitEngine(MaxQueue)

\* ---------------------------------------------------------------- helpers
\* ev and done describe the step just taken, if it was a Check / a return
NoEvent == ev' = NoEv /\ done' = NoDone
Range(s) == {s[k] : k \in 1..Len(s)}
Top == stack[Len(stack)]
Idle == stack = <<>>
InBody == stack # <<>> /\ Top.body # 0
\* a script is running: the rule files are loaded before Start, afterwards
\* scripts run as rule bodies
Loading == Idle /\ ~ready
CanCall == panicked = "no" /\ (Loading \/ (InBody /\ Top.ops < MaxBodyOps))
\* the calling body has used one more primitive
Called(s) == IF s = <<>> THEN s ELSE [s EXCEPT ![Len(s)].ops = @ + 1]
\* rule object o owes no evaluation any more (it was evaluated or destroyed)
Unpend(s, o) ==
  [k \in 1..Len(s) |-> [s[k] EXCEPT !.pAll = @ \ {o}, !.pComp = @ \ {o},
                                    !.pNone = @ \ {o}]]
Registered == {ruleMap[n] : n \in Names} \ {0}
CondRules ==
  {o \in Registered :
     rules[o].ruleType \in {RULE_TYPE_LEVEL_TRIGGERED, RULE_TYPE_EDGE_TRIGGERED}}

\* --------------------------------------------------------- esWbDefineRule
\* a definition that appends the name also when it is already registered
DefineRuleList_always(name, found) == Append(ruleList, name)

\* the rule list after a successful definition of name
DefineRuleList(name, found) ==
  IF found THEN ruleList ELSE Append(ruleList, name)

\* a rejected definition that destroys the rule registered under the name
DefineRejected_destroyOld(name, r) ==
  IF ruleMap[name] = 0
    THEN [rules |-> rules, funcs |-> r.funcs, ruleMap |-> ruleMap]
    ELSE [rules |-> [rules EXCEPT ![ruleMap[name]] =
                       Destroy(rules[ruleMap[name]], r.funcs).rule],
          funcs |-> Destroy(rules[ruleMap[name]], r.funcs).funcs,
          ruleMap |-> ruleMap]

\* newRule returned an error: esWbDefineRule logs and returns before it
\* looks at engine.ruleMap
DefineRejected(name, r) ==
  [rules |-> rules, funcs |-> r.funcs, ruleMap |-> ruleMap]

esWbDefineRule(name, def, max) ==
  /\ CanCall
  /\ defines < max
  \* names are interchangeable: a script introduces them in a fixed order
  /\ name = "r2" => ruleMap["r1"] # 0
  /\ LET obj == Len(rules) + 1
         r == newRule(name, def, obj)
         old == ruleMap[name]
     IN
     /\ defines' = defines + 1
     /\ callbackIndex' = r.cbIndex
     /\ cellToRuleMap' = r.c2r
     /\ gh' = Append(gh, [NoGh EXCEPT !.ok = r.ok, !.def = def,
                                      !.type = r.rule.ruleType])
     /\ IF ~r.ok
          THEN \* the rule object is dropped; it stays reachable only if
               \* storeRuleCell put it into the index
               /\ rules' = Append(DefineRejected(name, r).rules, r.rule)
               /\ ruleFuncs' = DefineRejected(name, r).funcs
               /\ ruleMap' = DefineRejected(name, r).ruleMap
               /\ UNCHANGED <<ruleList, defOrder>>
               /\ stack' = Called(stack)
          ELSE /\ IF old # 0
                    THEN /\ rules' = Append([rules EXCEPT ![old] =
                                               Destroy(rules[old], r.funcs).rule],
                                            r.rule)
                         /\ ruleFuncs' = Destroy(rules[old], r.funcs).funcs
                         /\ ruleList' = DefineRuleList(name, TRUE)
                         /\ stack' = Unpend(Called(stack), old)
                    ELSE /\ rules' = Append(rules, r.rule)
                         /\ ruleFuncs' = r.funcs
                         /\ ruleList' = DefineRuleList(name, FALSE)
                         /\ stack' = Called(stack)
               /\ ruleMap' = [ruleMap EXCEPT ![name] = obj]
               /\ defOrder' = IF name \in Range(defOrder) THEN defOrder
                              ELSE Append(defOrder, name)
  /\ UNCHANGED <<cellVars, cellChange, ready, rulesWithoutCells, notedCells,
                 panicked, passes, nested>>
  /\ NoEvent
  /\ UNCHANGED <<timerVars, spawnVars, chanCap, chanState, heater>>

\* --------------------------------------------------------------- RunRules
\* rule.ShouldCheck() on every rule of a list / set
Mark(rs, objs) ==
  [o \in 1..Len(rs) |-> IF o \in objs THEN [rs[o] EXCEPT !.shouldCheck = TRUE]
                        ELSE rs[o]]

\* a marking that marks every rule, evaluated before or not
RunRulesMark_everyRule(cell) ==
  IF cell = NoCell THEN rules
  ELSE [o \in 1..Len(rules) |-> [rules[o] EXCEPT !.shouldCheck = TRUE]]

\* a marking that skips rulesWithoutCells when the cell is incomplete
RunRulesMark_completeOnly(cell) ==
  IF cell = NoCell \/ ~cellComplete[cell] THEN rules
  ELSE Mark(Mark(rules, Range(cellToRuleMap[cell])), rulesWithoutCells)

\* the marking part of RunRules(cellSpec)
RunRulesMark(cell) ==
  IF cell = NoCell THEN rules
  ELSE Mark(IF cellComplete[cell] THEN Mark(rules, Range(cellToRuleMap[cell]))
            ELSE rules,
            rulesWithoutCells)

\* the frame of a pass that is about to iterate engine.ruleList
NewFrame(cell) ==
  [cell |-> cell, i |-> 1, n |-> Len(ruleList), body |-> 0, cond |-> 0,
   ops |-> 0,
   checked |-> <<>>, order |-> defOrder, regAtStart |-> Registered,
   redefBefore |-> (\E o \in 1..Len(rules) :
                      rules[o].ruleType = RULE_TYPE_NONE /\ o \notin Registered
                      /\ ruleMap[rules[o].name] # 0),
   pAll  |-> IF cell = NoCell THEN {}
             ELSE {o \in CondRules : cell \in gh[o].reads},
   pComp |-> IF cell = NoCell \/ ~cellComplete[cell] THEN {}
             ELSE {o \in CondRules : cell \in gh[o].reads},
   pNone |-> IF cell = NoCell THEN {}
             ELSE {o \in CondRules : gh[o].readNone},
   hadComp |-> FALSE, hadNone |-> FALSE]

StartPass(cell, s) ==
  /\ rules' = RunRulesMark(cell)
  /\ LET f == NewFrame(cell) IN
     stack' = Append(s, [f EXCEPT !.hadComp = f.pComp # {},
                                  !.hadNone = f.pNone # {}])

\* runRules() / runRules(devName, cellName) called by a script
esWbRunRules(cell) ==
  /\ CanCall /\ InBody
  /\ nested < MaxNested
  /\ nested' = nested + 1
  /\ StartPass(cell, Called(stack))
  /\ UNCHANGED <<cellVars, cellChange, ready, ruleMap, ruleList, ruleFuncs,
                 callbackIndex, cellToRuleMap, rulesWithoutCells, notedCells,
                 panicked, defines, passes, histVars>>
  /\ NoEvent
  /\ UNCHANGED <<timerVars, spawnVars, chanCap, chanState, heater>>

\* Start: the WhenReady callback runs the initial RunRules(nil)
Start ==
  /\ panicked = "no" /\ Idle /\ ~ready
  /\ passes < MaxPasses
  /\ passes' = passes + 1
  /\ ready' = TRUE
  /\ StartPass(NoCell, stack)
  /\ UNCHANGED <<cellVars, cellChange, ruleMap, ruleList, ruleFuncs,
                 callbackIndex, cellToRuleMap, rulesWithoutCells, notedCells,
                 panicked, defines, nested, histVars>>
  /\ NoEvent
  /\ UNCHANGED <<timerVars, spawnVars, chanCap, chanState, heater>>

\* a loop that does not wait for the ready channel
LoopStarted_noWait == TRUE

\* the loop goroutine of Start is past its receive from the ready channel,
\* which WhenReady's callback closes when its RunRules(nil) has returned
LoopStarted == ready /\ ~(stack # <<>> /\ stack[1].cell = NoCell)

\* the engine loop takes a CellSpec from the change channel
LoopRunRules ==
  /\ panicked = "no" /\ Idle /\ LoopStarted /\ cellChange # <<>>
  /\ passes < MaxPasses
  /\ passes' = passes + 1
  /\ cellChange' = Tail(cellChange)
  /\ StartPass(Head(cellChange), stack)
  /\ UNCHANGED <<cellVars, ready, ruleMap, ruleList, ruleFuncs,
                 callbackIndex, cellToRuleMap, rulesWithoutCells, notedCells,
                 panicked, defines, nested, histVars>>
  /\ NoEvent
  /\ UNCHANGED <<timerVars, spawnVars, chanCap, chanState, heater>>

\* the bus delivers a value: the cell becomes complete and the model
\* announces the change
BusPublish(cell, v) ==
  /\ panicked = "no" /\ Idle
  /\ Len(cellChange) < chanCap
  /\ cellComplete' = [cellComplete EXCEPT ![cell] = TRUE]
  /\ cellValue' = [cellValue EXCEPT ![cell] = v]
  /\ cellChange' = Append(cellChange, cell)
  /\ UNCHANGED <<ready, ruleVars, notedCells, stack, panicked, defines,
                 passes, nested, histVars>>
  /\ NoEvent
  /\ UNCHANGED <<timerVars, spawnVars, chanCap, chanState, heater>>


\* ------------------------------------------------------------------ Check
\* the cells a condition reads, in order (scripts read through dev[...][...])
ReadSeqs == {<<>>, <<CellAx>>, <<CellBy>>, <<CellAx, CellBy>>}
\* conditions that read no cell
NoReads == {<<>>}

Outcomes == {"true", "false", "throw"}

\* position of the first incomplete cell a condition reads, 0 if none
FirstIncomplete(reads) ==
  IF \E k \in 1..Len(reads) : ~cellComplete[reads[k]]
    THEN CHOOSE k \in 1..Len(reads) :
           ~cellComplete[reads[k]] /\ \A j \in 1..(k - 1) : cellComplete[reads[j]]
    ELSE 0

\* a proxy that asks isComplete() on the model without going through
\* trackCell: the incomplete cell is not noted
wrapConditionFunc_untracked(reads, out) ==
  LET k == FirstIncomplete(reads) IN
  IF k # 0
    THEN [noted |-> {reads[j] : j \in 1..(k - 1)}, value |-> FALSE,
          hitInc |-> TRUE, incCell |-> reads[k]]
    ELSE [noted |-> Range(reads), value |-> (out = "true"), hitInc |-> FALSE,
          incCell |-> NoCell]

\* lib.js: the condition wrapped by wrapConditionFunc(f, false), reading its
\* cells through the proxy of getDevValue while requireCompleteCells > 0.
\* Every read calls cell.isComplete(), which goes through trackCell; an
\* incomplete cell raises IncompleteCellCaught and the wrapper returns false.
\* A script exception makes invokeCallback return false.
wrapConditionFunc(reads, out) ==
  LET k == FirstIncomplete(reads) IN
  IF k # 0
    THEN [noted |-> {reads[j] : j \in 1..k}, value |-> FALSE, hitInc |-> TRUE,
          incCell |-> reads[k]]
    ELSE [noted |-> Range(reads), value |-> (out = "true"), hitInc |-> FALSE,
          incCell |-> NoCell]

\* storeRuleTrackedCells that drops the noted cells
storeRuleTrackedCells_drop(c2r, obj, noted) == c2r

\* engine.storeRuleTrackedCells, on the index
storeRuleTrackedCells(c2r, obj, noted) ==
  [c \in KnownCells |-> IF c \in noted THEN Append(c2r[c], obj) ELSE c2r[c]]

\* a level rule that fires on its first evaluation only
LevelShouldFire_firstRunOnly(rule, current) == current /\ rule.firstRun

\* the firing decision of Check for a level rule whose condition returned
\* current
LevelShouldFire(rule, current) == current

\* an edge rule that fires on its first run only
EdgeShouldFire_firstRunOnly(rule, current) == current /\ rule.firstRun

\* the firing decision of Check for an edge rule
EdgeShouldFire(rule, current) ==
  current /\ (rule.firstRun \/ current # rule.prevCondValue)

\* prevCondValue as an exception in the condition leaves it alone
NextPrevCondValue_keepOnThrow(rule, current, threw) ==
  IF threw THEN rule.prevCondValue ELSE current

\* rule.prevCondValue = current, where current is what invokeCallback
\* returned: false also when the condition threw
NextPrevCondValue(rule, current, threw) == current

\* the functions NewRuleEngine defines on the global object
EngineFunctions ==
  {"defineVirtualDevice", "log", "debug", "publish", "_wbDevObject",
   "_wbCellObject", "_wbStartTimer", "_wbStopTimer", "_wbSpawn",
   "_wbDefineRule", "runRules"}

\* lib.js: the getter timers[name].firing returns _wbCheckCurrentTimer(name);
\* calling a global that is not defined throws a ReferenceError
timersFiring ==
  IF "_wbCheckCurrentTimer" \in EngineFunctions THEN "value" ELSE "throw"

\* the args Check passes to the body of an onChange rule that fires
OnChangeArgs(rule, cell) ==
  [device |-> cell[1], cell |-> cell[2], newValue |-> cellValue[cell],
   oldValue |-> rule.oldCellValue]

\* the loop over rule.onCellChange
OnChangeShouldFire(rule, cell) ==
  /\ cell # NoCell
  /\ cellComplete[cell]
  /\ \E k \in 1..Len(rule.onCellChange) : rule.onCellChange[k] = cell

\* the frame after Check returned without invoking / with invoking the body
Advance(f, name) == [f EXCEPT !.i = @ + 1, !.checked = Append(@, name)]
EnterBody(f, name, o) == [f EXCEPT !.body = o, !.ops = 0,
                                   !.checked = Append(@, name)]

EvOf(o, cell) ==
  [NoEv EXCEPT !.obj = o, !.type = rules[o].ruleType, !.cell = cell,
               !.complete = (cell # NoCell /\ cellComplete[cell]),
               !.prevWas = gh[o].prev, !.prevInc = gh[o].lastInc,
               !.hadRead = (cell \in gh[o].reads), !.hadNone = gh[o].readNone,
               !.inW = (cell \in Range(rules[o].onCellChange)),
               !.atStart = (o \in Top.regAtStart),
               !.prevCond = rules[o].prevCondValue,
               !.firedBefore = gh[o].fires, !.seenBefore = gh[o].seen,
               !.depth = Len(stack)]

\* Rule.Check(cell) for the rule at position i of the pass on top of the stack
Check(readSeqs) ==
  /\ panicked = "no"
  /\ stack # <<>> /\ Top.body = 0 /\ Top.cond = 0 /\ Top.i <= Top.n
  /\ LET name == ruleList[Top.i]
         o == ruleMap[name]
         rule == rules[o]
         cell == Top.cell
     IN
     IF cell # NoCell /\ ~rule.shouldCheck THEN
       \* early return
       /\ stack' = [stack EXCEPT ![Len(stack)] = Advance(Top, name)]
       /\ ev' = [EvOf(o, cell) EXCEPT !.skipped = TRUE]
       /\ UNCHANGED <<rules, cellToRuleMap, rulesWithoutCells, notedCells,
                      panicked, gh>>
     ELSE IF rule.ruleType = RULE_TYPE_NONE THEN
       /\ panicked' = "invoking a destroyed rule"
       /\ ev' = NoEv
       /\ UNCHANGED <<rules, cellToRuleMap, rulesWithoutCells, notedCells,
                      stack, gh>>
     ELSE IF rule.ruleType = RULE_TYPE_ON_CELL_CHANGE THEN
       LET shouldFire == OnChangeShouldFire(rule, cell) IN
       /\ rules' = [rules EXCEPT ![o].firstRun = FALSE,
                                 ![o].shouldCheck = FALSE,
                                 ![o].oldCellValue =
                                    IF shouldFire THEN cellValue[cell] ELSE @]
       /\ stack' = [stack EXCEPT ![Len(stack)] =
                      IF shouldFire THEN EnterBody(Top, name, o)
                      ELSE Advance(Top, name)]
       /\ ev' = IF shouldFire
                  THEN [EvOf(o, cell) EXCEPT
                          !.fired = 1,
                          !.oldValue = OnChangeArgs(rule, cell).oldValue,
                          !.newValue = OnChangeArgs(rule, cell).newValue]
                  ELSE EvOf(o, cell)
       /\ gh' = IF shouldFire
                  THEN [gh EXCEPT ![o].fires = TRUE,
                                  ![o].seen = cellValue[cell]]
                  ELSE gh
       /\ UNCHANGED <<cellToRuleMap, rulesWithoutCells, notedCells, panicked>>
     ELSE
       \E reads \in readSeqs, out \in Outcomes, readsFiring \in BOOLEAN :
         LET c == wrapConditionFunc(reads, out)
             current == c.value
             shouldFire ==
               IF rule.ruleType = RULE_TYPE_LEVEL_TRIGGERED
                 THEN LevelShouldFire(rule, current)
                 ELSE EdgeShouldFire(rule, current)
         IN
         /\ c.hitInc => (out = "false" /\ ~readsFiring)
         /\ readsFiring => out = timersFiring
         /\ cellToRuleMap' = storeRuleTrackedCells(cellToRuleMap, o, c.noted)
         /\ rulesWithoutCells' = IF c.noted = {} THEN rulesWithoutCells \cup {o}
                                 ELSE rulesWithoutCells
         \* storeRuleTrackedCells ends with engine.notedCells = nil
         /\ notedCells' = Nil
         /\ rules' = [rules EXCEPT
                        ![o].prevCondValue =
                           IF rule.ruleType = RULE_TYPE_EDGE_TRIGGERED
                             THEN NextPrevCondValue(rule, current, out = "throw")
                             ELSE @,
                        ![o].firstRun = FALSE,
                        ![o].shouldCheck = FALSE]
         /\ stack' = [Unpend(stack, o) EXCEPT ![Len(stack)] =
                        IF shouldFire THEN EnterBody(Unpend(stack, o)[Len(stack)], name, o)
                        ELSE Advance(Unpend(stack, o)[Len(stack)], name)]
         /\ ev' = [EvOf(o, cell) EXCEPT !.evaluated = TRUE, !.cur = current,
                                        !.fired = IF shouldFire THEN 1 ELSE 0,
                                        !.noted = c.noted, !.hitInc = c.hitInc,
                                        !.out = out,
                                        !.firing = IF readsFiring
                                                     THEN timersFiring
                                                     ELSE "none"]
         /\ gh' = [gh EXCEPT ![o].prev = IF current THEN "true" ELSE "false",
                             ![o].reads = @ \cup c.noted,
                             ![o].readNone = @ \/ c.noted = {},
                             ![o].lastInc = c.incCell]
         /\ UNCHANGED panicked
  /\ UNCHANGED <<cellVars, cellChange, ready, ruleMap, ruleList, ruleFuncs,
                 callbackIndex, defines, passes, nested, defOrder>>
  /\ done' = NoDone
  /\ UNCHANGED <<timerVars, spawnVars, chanCap, chanState, heater>>

\* the rule body returns to Check, which returns to the loop of RunRules
BodyReturn ==
  /\ panicked = "no" /\ InBody
  /\ stack' = [stack EXCEPT ![Len(stack)].body = 0, ![Len(stack)].ops = 0,
                            ![Len(stack)].i = @ + 1]
  /\ UNCHANGED <<cellVars, cellChange, ready, ruleVars, notedCells, panicked,
                 defines, passes, nested, histVars>>
  /\ NoEvent
  /\ UNCHANGED <<timerVars, spawnVars, chanCap, chanState, heater>>

\* the loop of RunRules is over: the pass returns to its caller
PassEnd ==
  /\ panicked = "no"
  /\ stack # <<>> /\ Top.body = 0 /\ Top.i > Top.n
  /\ stack' = SubSeq(stack, 1, Len(stack) - 1)
  /\ done' = [cell |-> Top.cell,
              complete |-> (Top.cell # NoCell /\ cellComplete[Top.cell]),
              n |-> Top.n, checked |-> Top.checked, order |-> Top.order,
              owedAll |-> Top.pAll, owedComp |-> Top.pComp,
              owedNone |-> Top.pNone,
              hadComp |-> Top.hadComp, hadNone |-> Top.hadNone,
              redefBefore |-> Top.redefBefore,
              count |-> passes + nested]
  /\ UNCHANGED <<cellVars, cellChange, ready, ruleVars, notedCells, panicked,
                 defines, passes, nested, gh, defOrder>>
  /\ ev' = NoEv
  /\ UNCHANGED <<timerVars, spawnVars, chanCap, chanState, heater>>

\* ------------------------------------------------------------------- Next
Next ==
  \/ \E name \in Names, def \in Defs : esWbDefineRule(name, def, MaxDefines)
  \/ \E cell \in AllCells \cup {NoCell} : esWbRunRules(cell)
  \/ Start
  \/ LoopRunRules
  \/ \E cell \in AllCells, v \in Values : BusPublish(cell, v)
  \/ Check(ReadSeqs)
  \/ BodyReturn
  \/ PassEnd

Spec == Init /\ [][Next]_vars

\* the registry under every kind of definition, with conditions that read
\* no cell
RegistryNext ==
  \/ \E name \in Names, def \in AllDefs :
        esWbDefineRule(name, def, MaxRegistryDefines)
  \/ \E cell \in AllCells \cup {NoCell} : esWbRunRules(cell)
  \/ Start
  \/ LoopRunRules
  \/ \E cell \in AllCells, v \in Values : BusPublish(cell, v)
  \/ Check(NoReads)
  \/ BodyReturn
  \/ PassEnd

RegistrySpec == Init /\ [][RegistryNext]_vars


\* defineRule alone, under every shape of definition
DefineNext ==
  \E name \in Names, def \in ShapeDefs :
     esWbDefineRule(name, def, MaxShapeDefines)

DefineSpec == Init /\ [][DefineNext]_vars

\* the engine loop with a change channel that holds two CellSpecs
LoopNext ==
  \/ \E name \in Names, def \in Defs : esWbDefineRule(name, def, MaxDefines)
  \/ \E cell \in AllCells \cup {NoCell} : esWbRunRules(cell)
  \/ Start
  \/ LoopRunRules
  \/ \E cell \in AllCells, v \in Values : BusPublish(cell, v)
  \/ Check(NoReads)
  \/ BodyReturn
  \/ PassEnd

LoopSpec == InitEngine(MaxLoopQueue) /\ [][LoopNext]_vars

\* ---------------------------------------------------- dependency tracking
\* Check with the evaluation of a condition taken step by step: the condition
\* is a script that reads cells and may call runRules before it returns.

\* engine.startTrackingCells: make(map[*Cell]bool)
startTrackingCells == [isNil |-> FALSE, cells |-> {}]

\* engine.trackCell, on the value of engine.notedCells
trackCell(noted, cell) ==
  IF noted = Nil THEN Nil ELSE [noted EXCEPT !.cells = @ \cup {cell}]

\* rule.invokeCond up to the call of the condition: Check got past its early
\* return and its panic for a level or edge rule; startTrackingCells
invokeCond ==
  /\ panicked = "no"
  /\ stack # <<>> /\ Top.body = 0 /\ Top.cond = 0 /\ Top.i <= Top.n
  /\ LET o == ruleMap[ruleList[Top.i]]
         rule == rules[o]
     IN
     /\ ~(Top.cell # NoCell /\ ~rule.shouldCheck)
     /\ rule.ruleType \in {RULE_TYPE_LEVEL_TRIGGERED, RULE_TYPE_EDGE_TRIGGERED}
     /\ notedCells' = startTrackingCells
     /\ stack' = [stack EXCEPT ![Len(stack)].cond = o, ![Len(stack)].ops = 0]
  /\ UNCHANGED <<cellVars, cellChange, ready, ruleVars, panicked, defines,
                 passes, nested, histVars>>
  /\ NoEvent
  /\ UNCHANGED <<timerVars, spawnVars, chanCap, chanState, heater>>

\* the condition returned current to invokeCond: the deferred
\* storeRuleTrackedCells, then the rest of Check
CondFinish(noted, current, threw) ==
  LET o == Top.cond
      rule == rules[o]
      name == rule.name
      cells == noted.cells
      shouldFire ==
        IF rule.ruleType = RULE_TYPE_LEVEL_TRIGGERED
          THEN LevelShouldFire(rule, current)
          ELSE EdgeShouldFire(rule, current)
      f == [Unpend(stack, o)[Len(stack)] EXCEPT !.cond = 0]
  IN
  /\ cellToRuleMap' = storeRuleTrackedCells(cellToRuleMap, o, cells)
  /\ rulesWithoutCells' = IF cells = {} THEN rulesWithoutCells \cup {o}
                          ELSE rulesWithoutCells
  /\ notedCells' = Nil
  /\ rules' = [rules EXCEPT
                 ![o].prevCondValue =
                    IF rule.ruleType = RULE_TYPE_EDGE_TRIGGERED
                      THEN NextPrevCondValue(rule, current, threw)
                      ELSE @,
                 ![o].firstRun = FALSE,
                 ![o].shouldCheck = FALSE]
  /\ stack' = [Unpend(stack, o) EXCEPT ![Len(stack)] =
                 IF shouldFire THEN EnterBody(f, name, o)
                 ELSE Advance(f, name)]
  /\ ev' = [EvOf(o, Top.cell) EXCEPT !.evaluated = TRUE, !.cur = current,
                                     !.fired = IF shouldFire THEN 1 ELSE 0,
                                     !.noted = cells]
  /\ gh' = [gh EXCEPT ![o].prev = IF current THEN "true" ELSE "false",
                      ![o].reads = @ \cup cells,
                      ![o].readNone = @ \/ cells = {}]
  /\ done' = NoDone
  /\ UNCHANGED <<cellVars, cellChange, ready, ruleMap, ruleList, ruleFuncs,
                 callbackIndex, panicked, defines, passes, nested, defOrder>>
  /\ UNCHANGED <<timerVars, spawnVars, chanCap, chanState, heater>>

\* the running condition reads dev[...][...]: the proxy of getDevValue asks
\* cell.isComplete(), which goes through trackCell; an incomplete cell
\* raises IncompleteCellCaught and the wrapper returns false
CondRead(cell) ==
  /\ panicked = "no"
  /\ stack # <<>> /\ Top.body = 0 /\ Top.cond # 0
  /\ IF cellComplete[cell]
       THEN /\ notedCells' = trackCell(notedCells, cell)
            /\ UNCHANGED <<cellVars, cellChange, ready, ruleVars, stack,
                           panicked, defines, passes, nested, histVars>>
            /\ NoEvent
            /\ UNCHANGED <<timerVars, spawnVars, chanCap, chanState, heater>>
       ELSE CondFinish(trackCell(notedCells, cell), FALSE, FALSE)

\* the running condition calls runRules() / runRules(devName, cellName)
CondRunRules(cell) ==
  /\ panicked = "no"
  /\ stack # <<>> /\ Top.body = 0 /\ Top.cond # 0
  /\ Top.ops < MaxBodyOps
  /\ nested < MaxNested
  /\ nested' = nested + 1
  /\ StartPass(cell, Called(stack))
  /\ UNCHANGED <<cellVars, cellChange, ready, ruleMap, ruleList, ruleFuncs,
                 callbackIndex, cellToRuleMap, rulesWithoutCells, notedCells,
                 panicked, defines, passes, histVars>>
  /\ NoEvent
  /\ UNCHANGED <<timerVars, spawnVars, chanCap, chanState, heater>>

\* the running condition returns, or throws
CondReturn(out) ==
  /\ panicked = "no"
  /\ stack # <<>> /\ Top.body = 0 /\ Top.cond # 0
  /\ CondFinish(notedCells, out = "true", out = "throw")

\* the running rule body reads dev[...][...] of a cell: cell.isComplete()
\* and cell.value() go through trackCell
BodyAccess(cell) ==
  /\ panicked = "no" /\ InBody
  /\ notedCells' = trackCell(notedCells, cell)
  /\ ev' = [NoEv EXCEPT !.access = cell]
  /\ done' = NoDone
  /\ UNCHANGED <<cellVars, cellChange, ready, ruleVars, stack, panicked,
                 defines, passes, nested, histVars>>
  /\ UNCHANGED <<timerVars, spawnVars, chanCap, chanState, heater>>

\* no condition is evaluated in one step
StepwiseConds == {}

\* rule files that define their rules at load time, conditions and bodies
\* that read cells, conditions that may call runRules
TrackNext ==
  \/ \E name \in Names, def \in Defs :
        Loading /\ esWbDefineRule(name, def, MaxDefines)
  \/ Start
  \/ LoopRunRules
  \/ \E cell \in AllCells, v \in Values : BusPublish(cell, v)
  \/ Check(StepwiseConds)
  \/ invokeCond
  \/ \E cell \in AllCells : CondRead(cell)
  \/ \E cell \in AllCells \cup {NoCell} : CondRunRules(cell)
  \/ \E out \in Outcomes : CondReturn(out)
  \/ \E cell \in AllCells : BodyAccess(cell)
  \/ BodyReturn
  \/ PassEnd

TrackSpec == Init /\ [][TrackNext]_vars


\* ------------------------------------------------ samplerules.js: heaterOn
\* the condition of heaterOn behind wrapConditionFunc(f, false):
\*   dev.stabSettings.enabled &&
\*     dev.Weather["Temp 1"] < dev.stabSettings.lowThreshold
\* && does not evaluate its right side when enabled is false; every read
\* goes through trackCell, and reading Temp 1 before it is complete raises
\* IncompleteCellCaught, which makes the wrapper return false
HeaterCond(h) ==
  IF ~h.enabled
    THEN [noted |-> {"stabSettings/enabled"}, value |-> FALSE]
  ELSE IF h.temp = NoTemp
    THEN [noted |-> {"stabSettings/enabled", "Weather/Temp 1"},
          value |-> FALSE]
  ELSE [noted |-> {"stabSettings/enabled", "Weather/Temp 1",
                   "stabSettings/lowThreshold"},
        value |-> h.temp < lowThreshold]

\* Cell.IsComplete(): the cells of the virtual device have their values
\* from its definition, the others once a value has been delivered
HeaterComplete(h, cell) ==
  CASE cell = "Weather/Temp 1" -> h.temp # NoTemp
    [] cell = "Relays/Relay 1" -> h.relay
    [] OTHER -> TRUE

\* Rule.Check(cell) of heaterOn; its body sets Relays/Relay 1 and calls
\* startTicker("heating", 3000)
HeaterCheck(h, cell) ==
  IF cell # NoCellSpec /\ ~h.rule.shouldCheck THEN h
  ELSE
    LET c == HeaterCond(h)
        shouldFire == EdgeShouldFire(h.rule, c.value)
    IN [h EXCEPT
          !.cellToRule = IF c.noted # {} THEN @ \cup c.noted ELSE @,
          !.withoutCells = IF c.noted # {} THEN @ ELSE TRUE,
          !.rule = [firstRun |-> FALSE,
                    prevCondValue |-> NextPrevCondValue(h.rule, c.value,
                                                        FALSE),
                    shouldCheck |-> FALSE],
          !.fires = IF shouldFire THEN @ + 1 ELSE @,
          !.relay = IF shouldFire THEN TRUE ELSE @,
          !.echo = IF shouldFire THEN TRUE ELSE @]

\* RunRules(cellSpec) with heaterOn as the only rule
HeaterRunRules(h, cell) ==
  LET marked ==
        /\ cell # NoCellSpec
        /\ \/ HeaterComplete(h, cell) /\ cell \in h.cellToRule
           \/ h.withoutCells
  IN HeaterCheck([h EXCEPT !.rule.shouldCheck = @ \/ marked], cell)

nonHeaterVars == <<cellVars, cellChange, chanCap, chanState, ready, ruleVars,
                   notedCells, stack, panicked, defines, passes, nested, ev,
                   gh, defOrder, done, timerVars, spawnVars>>

\* Start: the WhenReady callback runs RunRules(nil)
HeaterStart ==
  /\ ~heater.started
  /\ heater' = HeaterRunRules([heater EXCEPT !.started = TRUE], NoCellSpec)
  /\ UNCHANGED nonHeaterVars

\* the engine loop takes a CellSpec from the change channel
HeaterLoop ==
  /\ heater.started /\ heater.queue # <<>>
  /\ heater' = HeaterRunRules([heater EXCEPT !.queue = Tail(@)],
                              Head(heater.queue))
  /\ UNCHANGED nonHeaterVars

\* what the bus delivers in the scenario: a cell and its value
HeaterPublishes ==
  ({"stabSettings/enabled"} \X BOOLEAN) \cup ({"Weather/Temp 1"} \X Temps)

\* the bus delivers a value and the model announces the change
HeaterPublish(pub) ==
  /\ Len(heater.log) < MaxHeaterPublishes
  /\ Len(heater.queue) < MaxHeaterQueue
  /\ heater' = [heater EXCEPT
       !.enabled = IF pub[1] = "stabSettings/enabled" THEN pub[2] ELSE @,
       !.temp = IF pub[1] = "Weather/Temp 1" THEN pub[2] ELSE @,
       !.queue = Append(@, pub[1]),
       !.log = Append(@, pub),
       !.quiet = @ /\ heater.started /\ heater.queue = <<>>]
  /\ UNCHANGED nonHeaterVars

\* the relay driver reports the value the body of heaterOn has set
HeaterRelayEcho ==
  /\ heater.echo
  /\ Len(heater.queue) < MaxHeaterQueue
  /\ heater' = [heater EXCEPT !.echo = FALSE,
                              !.queue = Append(@, "Relays/Relay 1")]
  /\ UNCHANGED nonHeaterVars

HeaterNext ==
  \/ HeaterStart
  \/ HeaterLoop
  \/ \E pub \in HeaterPublishes : HeaterPublish(pub)
  \/ HeaterRelayEcho

HeaterSpec == Init /\ [][HeaterNext]_vars

\* ----------------------------------------------------------------- timers
\* the smallest free id of a timer table: the first nil slot, or one past
\* the end (history only)
SmallestFree(ts) ==
  CHOOSE k \in 1..(Len(ts) + 1) :
    /\ (k > Len(ts) \/ ts[k] = NoEntry)
    /\ \A j \in 1..(k - 1) : ts[j] # NoEntry

\* the slot search of esWbStartTimer:
\*   for n = 1; n <= len(timers); n++ { if timers[n-1] == nil {
\*     timers[n-1] = entry }; break }
\* the break leaves the loop in its first iteration, so n is 1 when the loop
\* is left, whether or not the slot was taken
StartTimerLoop(ts, entry) ==
  [n  |-> 1,
   ts |-> IF 1 <= Len(ts) /\ ts[1] = NoEntry THEN [ts EXCEPT ![1] = entry]
          ELSE ts]

\* callbackList[key] = callback
PutKey(f, key, value) ==
  [k \in DOMAIN f \cup {key} |-> IF k = key THEN value ELSE f[k]]
\* delete callbackList[key]
DelKey(f, key) == [k \in DOMAIN f \ {key} |-> f[k]]

\* _wbStartTimer(callback, ms, periodic), called by a script
esWbStartTimer(periodic) ==
  /\ panicked = "no"
  /\ Len(timerEntries) < MaxTimers
  /\ LET entry == Len(timerEntries) + 1
         loop == StartTimerLoop(timers, entry)
         n == loop.n
         ts == IF n > Len(loop.ts) THEN Append(loop.ts, entry) ELSE loop.ts
     IN
     /\ timerEntries' = Append(timerEntries,
                               [periodic |-> periodic, quitClosed |-> FALSE])
     /\ timers' = ts
     /\ timerCallbacks' = PutKey(timerCallbacks, n, entry)
     /\ waiters' = Append(waiters, [n |-> n, periodic |-> periodic,
                                    state |-> "waiting"])
     /\ lastStart' = [n |-> n, expect |-> SmallestFree(timers),
                      lenBefore |-> Len(timers), lenAfter |-> Len(ts),
                      full |-> (\A k \in 1..Len(timers) : timers[k] # NoEntry)]
     /\ cbCalls' = Append(cbCalls, 0)
  \* a primitive called by a script runs on the engine thread
  /\ tev' = [NoTev EXCEPT !.kind = "start", !.thread = "engine"]
  /\ UNCHANGED <<engineVars, spawnVars, panicked, callQueue, ticks, stopped,
                 inFlight>>

\* engine.removeTimer
removeTimer(n) ==
  /\ timerCallbacks' = DelKey(timerCallbacks, n)
  /\ timers' = [timers EXCEPT ![n] = NoEntry]

\* the timers a script holds id n for: started with that id, not yet
\* stopped through it, their goroutine still running (history only)
ActiveWith(n) ==
  {w \in 1..Len(waiters) :
     waiters[w].n = n /\ waiters[w].state # "exited" /\ w \notin stopped}

\* _wbStopTimer(id), called by a script
esWbStopTimer(n) ==
  /\ panicked = "no"
  /\ IF n = 0 THEN
       UNCHANGED <<timers, timerCallbacks, timerEntries, panicked>>
     ELSE IF n > Len(timers) THEN
       /\ panicked' = "index out of range"
       /\ UNCHANGED <<timers, timerCallbacks, timerEntries>>
     ELSE IF timers[n] # NoEntry THEN
       /\ removeTimer(n)
       /\ timerEntries' = [timerEntries EXCEPT ![timers[n]].quitClosed = TRUE]
       /\ UNCHANGED panicked
     ELSE
       UNCHANGED <<timers, timerCallbacks, timerEntries, panicked>>
  /\ lastStart' = NoStart
  /\ tev' = [NoTev EXCEPT !.kind = "stop", !.n = n, !.targets = ActiveWith(n),
                          !.thread = "engine",
                          !.unchanged = (timers' = timers /\
                                         timerCallbacks' = timerCallbacks)]
  /\ stopped' = stopped \cup ActiveWith(n)
  /\ inFlight' = inFlight \cup (ActiveWith(n) \cap Range(callQueue))
  /\ UNCHANGED <<engineVars, spawnVars, waiters, callQueue, ticks, cbCalls>>

\* the goroutine of a timer receives a tick and hands fireTimer(n) to
\* CallSync; it waits there until the engine thread has run the closure
Tick(w) ==
  /\ panicked = "no"
  /\ waiters[w].state = "waiting"
  /\ ticks < MaxTicks
  /\ ticks' = ticks + 1
  /\ waiters' = [waiters EXCEPT ![w].state = "calling"]
  /\ callQueue' = Append(callQueue, w)
  /\ lastStart' = NoStart
  /\ tev' = NoTev
  /\ UNCHANGED <<engineVars, spawnVars, panicked, timers, timerEntries, timerCallbacks,
                 stopped, inFlight, cbCalls>>

\* the goroutine of a timer finds its quit channel closed: timer.Stop()
Quit(w) ==
  /\ panicked = "no"
  /\ waiters[w].state = "waiting"
  /\ timerEntries[w].quitClosed
  /\ waiters' = [waiters EXCEPT ![w].state = "exited"]
  /\ lastStart' = NoStart
  /\ tev' = NoTev
  /\ UNCHANGED <<engineVars, spawnVars, panicked, timers, timerEntries, timerCallbacks,
                 callQueue, ticks, stopped, inFlight, cbCalls>>

\* the engine thread runs the closure of a tick: engine.fireTimer(n)
fireTimer ==
  /\ panicked = "no"
  /\ callQueue # <<>>
  /\ LET w == Head(callQueue)
         n == waiters[w].n
         \* invokeCallback("ruleEngineTimers", n, nil): the callback stored
         \* under key n, if any
         cb == IF n \in DOMAIN timerCallbacks THEN timerCallbacks[n] ELSE 0
         invoked == IF n <= Len(timers) /\ timers[n] # NoEntry THEN cb ELSE 0
     IN
     /\ callQueue' = Tail(callQueue)
     /\ waiters' = [waiters EXCEPT ![w].state =
                      IF waiters[w].periodic THEN "waiting" ELSE "exited"]
     /\ IF n > Len(timers) THEN
          /\ panicked' = "index out of range"
          /\ UNCHANGED <<timers, timerCallbacks>>
        ELSE IF timers[n] = NoEntry THEN
          UNCHANGED <<timers, timerCallbacks, panicked>>
        ELSE IF ~timerEntries[timers[n]].periodic THEN
          /\ removeTimer(n)
          /\ UNCHANGED panicked
        ELSE
          UNCHANGED <<timers, timerCallbacks, panicked>>
     /\ cbCalls' = IF invoked = 0 THEN cbCalls
                   ELSE [cbCalls EXCEPT ![invoked] = @ + 1]
     \* the closure runs inside CallSync, on the engine thread
     /\ tev' = [NoTev EXCEPT !.kind = "fire", !.n = n, !.w = w,
                             !.thread = "engine",
                             !.invoked = invoked,
                             !.wasStopped = (w \in stopped)]
  /\ lastStart' = NoStart
  /\ UNCHANGED <<engineVars, spawnVars, timerEntries, ticks, stopped,
                 inFlight>>

TimerNext ==
  \/ \E periodic \in BOOLEAN : esWbStartTimer(periodic)
  \/ \E n \in 0..(Len(timers) + 1) : esWbStopTimer(n)
  \/ \E w \in 1..Len(waiters) : Tick(w)
  \/ \E w \in 1..Len(waiters) : Quit(w)
  \/ fireTimer

TimerSpec == Init /\ [][TimerNext]_vars

\* the cell model closes the change channel
CloseChannel ==
  /\ panicked = "no"
  /\ chanState = "open"
  /\ chanState' = "closed"
  /\ lastStart' = NoStart
  /\ tev' = NoTev
  /\ UNCHANGED <<cellVars, cellChange, chanCap, heater, ready, ruleVars,
                 notedCells,
                 stack, panicked, defines, passes, nested, ev, gh, defOrder,
                 done, timers, timerEntries, timerCallbacks, waiters,
                 callQueue, ticks, stopped, inFlight, cbCalls, spawnVars>>

\* the entries of the timer table
TableEntries(ts) == {ts[k] : k \in 1..Len(ts)} \ {NoEntry}

\* the loop goroutine of Start receives from the closed change channel
\* (ok is false): it closes the quit channel of every entry of the timer
\* table, truncates the table and releases the channel
LoopShutdown ==
  /\ panicked = "no"
  /\ LoopStarted
  /\ chanState = "closed" /\ cellChange = <<>>
  /\ timerEntries' = [e \in DOMAIN timerEntries |->
                        IF e \in TableEntries(timers)
                          THEN [timerEntries[e] EXCEPT !.quitClosed = TRUE]
                          ELSE timerEntries[e]]
  /\ timers' = <<>>
  /\ chanState' = "released"
  /\ lastStart' = NoStart
  \* the branch runs in the loop goroutine itself, outside CallSync
  /\ tev' = [NoTev EXCEPT !.kind = "shutdown", !.thread = "loop",
                          !.targets = TableEntries(timers)]
  /\ UNCHANGED <<cellVars, cellChange, chanCap, heater, ready, ruleVars,
                 notedCells,
                 stack, panicked, defines, passes, nested, ev, gh, defOrder,
                 done, timerCallbacks, waiters, callQueue, ticks, stopped,
                 inFlight,
                 cbCalls, spawnVars>>

\* the timers of an engine that is started and stopped
StopNext ==
  \/ \E periodic \in BOOLEAN : esWbStartTimer(periodic)
  \/ \E n \in 0..(Len(timers) + 1) : esWbStopTimer(n)
  \/ \E w \in 1..Len(waiters) : Tick(w)
  \/ \E w \in 1..Len(waiters) : Quit(w)
  \/ fireTimer
  \/ Start
  \/ PassEnd
  \/ CloseChannel
  \/ LoopShutdown

StopSpec == Init /\ [][StopNext]_vars

\* ------------------------------------------------------------------ spawn
ExitStatuses == {0, 1}

\* _wbSpawn(args, callback, captureOutput, captureErrorOutput, input), called
\* by a script; the goroutine it starts runs the command
esWbSpawn(hasCallback, captureOutput) ==
  /\ panicked = "no"
  /\ Len(procs) < MaxSpawns
  /\ LET cb == IF hasCallback THEN callbackIndex ELSE NO_CALLBACK IN
     /\ callbackIndex' = IF hasCallback THEN callbackIndex + 1
                         ELSE callbackIndex
     /\ processes' = IF hasCallback THEN processes \cup {cb} ELSE processes
     /\ procs' = Append(procs, [callbackIndex |-> cb,
                                captureOutput |-> captureOutput,
                                state |-> "running", exitStatus |-> 0,
                                calls |-> 0])
  /\ pev' = NoPev
  /\ UNCHANGED <<cellVars, cellChange, chanCap, chanState, heater, ready,
                 rules, ruleMap, ruleList, ruleFuncs, cellToRuleMap, rulesWithoutCells,
                 notedCells, stack, panicked, defines, passes, nested, ev, gh,
                 defOrder, done, timerVars, procCalls>>

\* Spawn(...) returns in the goroutine of process p: with an error when the
\* command could not be launched, else with the result of the exited process
SpawnReturns(p, launched, exitStatus) ==
  /\ panicked = "no"
  /\ procs[p].state = "running"
  /\ IF ~launched THEN
       /\ procs' = [procs EXCEPT ![p].state = "failed"]
       /\ UNCHANGED procCalls
     ELSE IF procs[p].callbackIndex > 0 THEN
       /\ procs' = [procs EXCEPT ![p].state = "calling",
                                 ![p].exitStatus = exitStatus]
       /\ procCalls' = Append(procCalls, p)
     ELSE
       /\ procs' = [procs EXCEPT ![p].state = "done",
                                 ![p].exitStatus = exitStatus]
       /\ UNCHANGED procCalls
  /\ pev' = NoPev
  /\ UNCHANGED <<engineVars, timerVars, panicked, processes>>

\* the arguments the closure builds for the callback
SpawnArgs(proc) ==
  [exitStatus |-> proc.exitStatus,
   capturedOutput |-> IF proc.captureOutput THEN "stdout" ELSE "absent",
   capturedErrorOutput |-> "stderr"]

\* the callback list after the closure has invoked the callback under key
ProcCallbackDone_keep(key) == processes

\* engine.removeCallback("processes", callbackIndex)
ProcCallbackDone(key) == processes \ {key}

\* the engine thread runs the closure of an exited process:
\* invokeCallback("processes", callbackIndex, args), then removeCallback
ProcCallback ==
  /\ panicked = "no"
  /\ procCalls # <<>>
  /\ LET p == Head(procCalls)
         key == procs[p].callbackIndex
     IN
     /\ procCalls' = Tail(procCalls)
     /\ procs' = [procs EXCEPT ![p].state = "done",
                               ![p].calls = IF key \in processes THEN @ + 1
                                            ELSE @]
     /\ processes' = ProcCallbackDone(key)
     /\ pev' = [p |-> p, args |-> SpawnArgs(procs[p])]
  /\ UNCHANGED <<engineVars, timerVars, panicked>>

SpawnNext ==
  \/ \E hasCallback \in BOOLEAN, captureOutput \in BOOLEAN :
        esWbSpawn(hasCallback, captureOutput)
  \/ \E p \in 1..Len(procs), launched \in BOOLEAN, st \in ExitStatuses :
        SpawnReturns(p, launched, st)
  \/ ProcCallback

\* CallSync runs every closure it is given on the engine thread
SpawnSpec == Init /\ [][SpawnNext]_vars /\ WF_vars(ProcCallback)

\* ================================================================= claims
IsPrefix(a, b) == Len(a) <= Len(b) /\ \A k \in 1..Len(a) : a[k] = b[k]
Checked == ev.obj # 0

\* C1: whenever the condition of a level-triggered rule is evaluated in a
\* pass, the body is invoked in that Check iff the condition returned true,
\* and it is invoked at most once; a level rule that is not skipped is
\* always evaluated.
C1_LevelFiresIffTrue ==
  (Checked /\ ev.type = RULE_TYPE_LEVEL_TRIGGERED) =>
     /\ ev.evaluated = ~ev.skipped
     /\ ev.fired \in {0, 1}
     /\ ev.evaluated => ((ev.fired = 1) <=> ev.cur)
     /\ ev.skipped => ev.fired = 0
     /\ (ev.fired = 1) <=> (InBody /\ Top.body = ev.obj)

C1_Witness ==
  /\ Checked /\ ev.type = RULE_TYPE_LEVEL_TRIGGERED
  /\ ev.evaluated /\ ev.cur /\ ev.fired = 1
  /\ ev.prevWas = "true"

\* C2: an edge-triggered rule fires in a Check iff its condition is true and
\* this is its first evaluation or its previous evaluation was not true;
\* a Check that returns early is no evaluation and leaves firstRun alone
\* (firstRun is still set exactly when the rule was never evaluated).
C2_EdgeFiresOnRisingEdge ==
  /\ (Checked /\ ev.type = RULE_TYPE_EDGE_TRIGGERED) =>
        /\ ev.evaluated = ~ev.skipped
        /\ ev.evaluated =>
             ((ev.fired = 1) <=> (ev.cur /\ ev.prevWas \in {"none", "false"}))
        /\ ev.skipped => ev.fired = 0
  /\ \A o \in 1..Len(rules) :
        rules[o].ruleType = RULE_TYPE_EDGE_TRIGGERED =>
           (rules[o].firstRun <=> gh[o].prev = "none")

C2_Witness ==
  /\ Checked /\ ev.type = RULE_TYPE_EDGE_TRIGGERED
  /\ ev.evaluated /\ ev.cur /\ ev.prevWas = "false" /\ ev.fired = 1

C4_ReadCellAlwaysRechecks == done.owedAll = {}

\* C4 (amended): the same for every pass whose cell C is complete when the
\* pass starts.
C4_ReadCompleteCellRechecks == done.owedComp = {}

C4_Witness ==
  /\ done.cell # NoCell /\ done.hadComp /\ done.owedComp = {}
  /\ \E o \in Registered : done.cell \in gh[o].reads /\ ~gh[o].readNone

\* C5 (as claimed): in a pass for cell C the condition of a level/edge rule
\* is evaluated only if an earlier evaluation of the rule read C or an
\* earlier evaluation read no cell at all.
C5_OnlyDependentRulesEvaluated ==
  (Checked /\ ev.evaluated /\ ev.cell # NoCell) => (ev.hadRead \/ ev.hadNone)

\* C6: when a pass for any cell returns, every rule that was registered at
\* its start and had an evaluation that read no cell has had its condition
\* evaluated during the pass, unless it was destroyed meanwhile.
C6_NoCellRulesAlwaysRechecked == done.owedNone = {}

C6_Witness ==
  /\ done.cell # NoCell /\ ~done.complete /\ done.hadNone /\ done.owedNone = {}

\* C7: a condition that reads an incomplete cell yields false, the body does
\* not fire and the incomplete cell is recorded for the rule; the evaluation
\* that follows it fires iff the condition is then true; and a pass for a
\* complete cell evaluates every registered rule that read the cell before,
\* also when the cell was incomplete at the time.
C7_IncompleteCellSuppresses ==
  /\ (Checked /\ ev.hitInc) =>
        /\ ~ev.cur /\ ev.fired = 0
        /\ gh[ev.obj].lastInc \in ev.noted
  /\ \A o \in 1..Len(gh) :
        gh[o].lastInc # NoCell =>
           /\ o \in Range(cellToRuleMap[gh[o].lastInc])
           /\ gh[o].lastInc \in gh[o].reads
  /\ (Checked /\ ev.evaluated /\ ev.prevInc # NoCell) =>
        ((ev.fired = 1) <=> ev.cur)
  /\ done.owedComp = {}

C7_Witness ==
  /\ Checked /\ ev.evaluated /\ ev.cur /\ ev.fired = 1
  /\ ev.cell # NoCell /\ ev.complete /\ ev.prevInc = ev.cell
  /\ ev.depth = 1

\* C8: a pass checks the rules in the order in which their names were first
\* defined: what it has checked so far is a prefix of that order, and when it
\* returns it has checked exactly the names defined before it started.
C8_CheckedInDefinitionOrder ==
  /\ \A k \in 1..Len(stack) : IsPrefix(stack[k].checked, stack[k].order)
  /\ done.checked = done.order

C8_Witness ==
  /\ done.redefBefore /\ done.checked = <<"r1", "r2">>
  /\ ruleMap["r1"] > ruleMap["r2"]

\* C9: a step that replaces the rule registered under a name leaves the rule
\* list as it was, removes the old rule's condition and body handles from
\* ruleFuncs, leaves the old rule destroyed, and registers a new rule object
\* with firstRun = true and prevCondValue = false.
C9_RedefinitionReplacesInPlace ==
  [][\A n \in Names :
       (ruleMap[n] # 0 /\ ruleMap'[n] # ruleMap[n]) =>
          /\ ruleList' = ruleList
          /\ ruleMap'[n] \notin 1..Len(rules)
          /\ rules'[ruleMap[n]].ruleType = RULE_TYPE_NONE
          /\ rules[ruleMap[n]].then \notin ruleFuncs'
          /\ rules[ruleMap[n]].cond \notin ruleFuncs'
          /\ rules'[ruleMap'[n]].ruleType # RULE_TYPE_NONE
          /\ rules'[ruleMap'[n]].firstRun
          /\ ~rules'[ruleMap'[n]].prevCondValue]_vars

C9_Witness ==
  /\ Len(ruleList) = 2
  /\ \E o \in 1..Len(rules) :
        /\ rules[o].ruleType = RULE_TYPE_NONE /\ rules[o].cond # 0
        /\ ruleMap[rules[o].name] \notin {0, o}
        /\ ~gh[o].prev = "none"


\* C10 (as claimed): startTimer returns the smallest positive id whose slot
\* is free when it is called, and extends the timer table, by one, only when
\* every slot is occupied.
C10_StartTimerSmallestFreeSlot ==
  lastStart.n # 0 =>
     /\ lastStart.n = lastStart.expect
     /\ lastStart.lenAfter = lastStart.lenBefore + (IF lastStart.full THEN 1 ELSE 0)


\* the slot and the callback key of timer id n, as they are now
SlotOf(n) == IF n \in 1..Len(timers) THEN timers[n] ELSE NoEntry
KeyOf(n) == IF n \in DOMAIN timerCallbacks THEN timerCallbacks[n] ELSE 0

\* C11 (as claimed): when the tick of a timer that was not stopped is
\* delivered, the timer's own callback is invoked; a one-shot timer's callback
\* has then run exactly once, its slot is free and its callback removed; a
\* periodic timer's slot and callback are still in place. Other timers started
\* in the meantime make no difference.
C11_TickInvokesOwnCallback ==
  (tev.kind = "fire" /\ ~tev.wasStopped) =>
     /\ tev.invoked = tev.w
     /\ IF waiters[tev.w].periodic
          THEN SlotOf(tev.n) = tev.w /\ KeyOf(tev.n) = tev.w
          ELSE /\ cbCalls[tev.w] = 1
               /\ SlotOf(tev.n) = NoEntry
               /\ KeyOf(tev.n) = 0

\* C12 (as claimed): stopTimer(id) on an active periodic timer cancels that
\* timer (its quit channel is closed, so its goroutine stops the platform
\* timer), removes its callback and frees its slot, and no later tick invokes
\* its callback; this for every active timer, also one started while another
\* was active.
C12_StopCancelsTimer ==
  /\ tev.kind = "stop" =>
       \A w \in tev.targets :
          waiters[w].periodic =>
            /\ timerEntries[w].quitClosed
            /\ SlotOf(tev.n) = NoEntry
            /\ KeyOf(tev.n) = 0
  /\ (tev.kind = "fire" /\ tev.invoked # 0) => tev.invoked \notin stopped

\* C13 (as claimed): stopTimer with id 0, or with an id that names no active
\* timer (beyond the table, or stopped before), changes no slot and no
\* callback and does not fail.
C13_StopUnknownIsNoOp ==
  (tev.kind = "stop" /\ tev.targets = {}) =>
     /\ tev.unchanged
     /\ panicked = "no"


\* C14: for every spawn call with a callback: a process that was launched and
\* has exited gets its callback invoked exactly once, by the engine thread,
\* with the exit status and the captured output, and the handle is removed
\* from the process-callback list in the same step; a process that could not
\* be launched never gets its callback invoked.
C14_SpawnSafe ==
  /\ \A p \in 1..Len(procs) :
       /\ procs[p].calls <= 1
       /\ procs[p].state = "failed" => procs[p].calls = 0
       /\ procs[p].state \in {"running", "calling"} => procs[p].calls = 0
       /\ (procs[p].state = "done" /\ procs[p].callbackIndex # NO_CALLBACK) =>
             /\ procs[p].calls = 1
             /\ procs[p].callbackIndex \notin processes
  /\ pev.p # 0 =>
       /\ pev.args.exitStatus = procs[pev.p].exitStatus
       /\ pev.args.capturedOutput =
            (IF procs[pev.p].captureOutput THEN "stdout" ELSE "absent")
       /\ procs[pev.p].calls = 1
       /\ procs[pev.p].callbackIndex \notin processes
ProcExited(p) == p <= Len(procs) /\ procs[p].state = "calling"
ProcCalledBack(p) ==
  p <= Len(procs) /\ procs[p].state = "done" /\ procs[p].calls = 1
C14_SpawnCallbackOnce ==
  /\ []C14_SpawnSafe
  /\ \A p \in 1..MaxSpawns : ProcExited(p) ~> ProcCalledBack(p)
C14_Witness ==
  /\ pev.p = 2
  /\ pev.args.exitStatus = 1
  /\ procs[2].captureOutput
  /\ procs[1].state = "failed" /\ procs[1].callbackIndex # NO_CALLBACK


\* C15 (as claimed): timers[name].firing, read inside a rule condition, is
\* true exactly during the pass triggered by a tick of the timer started
\* under that name and false in every other pass. fireTimer starts no pass:
\* every pass is started by Start, by the engine loop or by runRules, so in
\* every pass the read is to give false.
C15_FiringOnlyInTickPass ==
  (Checked /\ ev.firing # "none") => ev.firing = "false"

\* the value a cell has before its first value from the bus
InitialValue(cell) == DefaultValue

\* C16 (as claimed): when an onChange rule fires, the oldValue given to its
\* body is the value the rule observed on its previous firing, or the changed
\* cell's initial value if the rule has not fired before.
C16_OldValueIsPreviousOrInitial ==
  (Checked /\ ev.type = RULE_TYPE_ON_CELL_CHANGE /\ ev.fired = 1) =>
     ev.oldValue = (IF ev.firedBefore THEN ev.seenBefore
                    ELSE InitialValue(ev.cell))

\* C17 (as claimed): a condition that raises a script exception counts as
\* false for that pass, the body does not fire, and an edge-triggered rule's
\* prevCondValue keeps the value it had before the pass.
C17_ExceptionKeepsPrevCondValue ==
  (Checked /\ ev.out = "throw") =>
     /\ ev.fired = 0
     /\ ev.type = RULE_TYPE_EDGE_TRIGGERED =>
          rules[ev.obj].prevCondValue = ev.prevCond

\* C17 (amended): a condition that raises a script exception counts as false
\* for that pass, the body does not fire, and an edge-triggered rule's
\* prevCondValue becomes false, as after an evaluation that returned false:
\* the next evaluation that returns true fires.
C17_ExceptionCountsAsFalse ==
  /\ (Checked /\ ev.out = "throw") =>
       /\ ev.evaluated /\ ~ev.cur
       /\ ev.fired = 0
       /\ ev.type = RULE_TYPE_EDGE_TRIGGERED => ~rules[ev.obj].prevCondValue
  /\ (Checked /\ ev.type = RULE_TYPE_EDGE_TRIGGERED /\ ev.evaluated
        /\ ev.cur /\ ~ev.prevCond) => ev.fired = 1
C17_Witness ==
  /\ Checked /\ ev.type = RULE_TYPE_EDGE_TRIGGERED
  /\ ev.out = "throw" /\ ev.prevCond
  /\ ~rules[ev.obj].prevCondValue


\* the definition step just taken was rejected by newRule
Rejected == defines' = defines + 1 /\ ~gh'[Len(gh')].ok

\* C18: a defineRule call whose definition is rejected leaves the registry
\* as it was: the rule list and the name-to-rule map are unchanged, and every
\* registered rule, the one under that name included, keeps its type, its
\* handles (still in the callback list) and its firstRun, prevCondValue and
\* oldCellValue.
C18_RejectedDefinePreservesRegistry ==
  [][Rejected =>
       /\ ruleList' = ruleList
       /\ ruleMap' = ruleMap
       /\ \A n \in Names :
            ruleMap[n] # 0 =>
              /\ rules'[ruleMap[n]] = rules[ruleMap[n]]
              /\ rules'[ruleMap[n]].ruleType # RULE_TYPE_NONE
              /\ rules'[ruleMap[n]].then \in ruleFuncs'
              /\ rules'[ruleMap[n]].cond # 0 =>
                   rules'[ruleMap[n]].cond \in ruleFuncs']_vars
C18_Witness ==
  /\ Len(gh) >= 2 /\ ~gh[Len(gh)].ok
  /\ \E n \in Names :
       /\ ruleMap[n] # 0
       /\ rules[Len(rules)].name = n
       /\ rules[ruleMap[n]].ruleType = RULE_TYPE_EDGE_TRIGGERED
       /\ rules[ruleMap[n]].prevCondValue
       /\ ~rules[ruleMap[n]].firstRun

\* a reference of the form device/control with both parts non-empty
WellFormedRef(ref) == FirstSlash(ref) > 1 /\ FirstSlash(ref) < Len(ref)
\* the definitions the claim calls valid
ValidShape(def) ==
  /\ def.then
  /\ (IF def.when THEN 1 ELSE 0) + (IF def.asSoonAs THEN 1 ELSE 0)
       + (IF def.occ.has THEN 1 ELSE 0) = 1
  /\ def.occ.has =>
       /\ Len(def.occ.names) > 0
       /\ \A k \in 1..Len(def.occ.names) : WellFormedRef(def.occ.names[k])
ShapeType(def) ==
  IF def.when THEN RULE_TYPE_LEVEL_TRIGGERED
  ELSE IF def.asSoonAs THEN RULE_TYPE_EDGE_TRIGGERED
  ELSE RULE_TYPE_ON_CELL_CHANGE

\* C19 (as claimed): defineRule accepts a definition if and only if it has
\* then, exactly one of when / asSoonAs / onCellChange and, for onCellChange,
\* a reference or a non-empty list of references device/control with both
\* parts non-empty; the accepted rule is level for when, edge for asSoonAs,
\* onChange for onCellChange.
C19_AcceptsExactlyValidShapes ==
  \A o \in 1..Len(gh) :
     /\ gh[o].ok <=> ValidShape(gh[o].def)
     /\ gh[o].ok => gh[o].type = ShapeType(gh[o].def)


\* C20: the engine loop runs no pass for a cell before the model has
\* signalled ready and the initial RunRules(nil) has returned; only the loop
\* takes CellSpecs from the change channel, always the oldest, and new ones
\* are added behind those waiting, so cell changes that arrive earlier are
\* processed afterwards, in arrival order.
C20_LoopWaitsForInitialPass ==
  [][/\ Len(cellChange') < Len(cellChange) =>
          /\ ready /\ stack = <<>>
          /\ stack' # <<>> /\ stack'[1].cell = Head(cellChange)
          /\ cellChange' = Tail(cellChange)
     /\ (stack = <<>> /\ stack' # <<>> /\ stack'[1].cell # NoCell) =>
          /\ ready /\ passes >= 1
          /\ Len(cellChange') < Len(cellChange)
     /\ Len(cellChange') >= Len(cellChange) =>
          IsPrefix(cellChange, cellChange')]_vars
C20_Witness ==
  /\ stack # <<>> /\ stack[1].cell # NoCell
  /\ cellChange # <<>> /\ cellChange[1] # stack[1].cell
  /\ Len(rules) > 0


\* C21: when the loop has handled the closing of the change channel, the
\* timer table is empty, every timer that was in it is cancelled and the
\* channel is released; from then on the closure of a tick of a cancelled
\* timer, also of a tick that was in flight, invokes no callback and does
\* not fail.
C21_StopCancelsAllTimers ==
  /\ tev.kind = "shutdown" =>
       /\ timers = <<>> /\ chanState = "released"
       /\ \A e \in tev.targets : timerEntries[e].quitClosed
  /\ (chanState = "released" /\ tev.kind = "fire"
      /\ timerEntries[tev.w].quitClosed) =>
       (tev.invoked = 0 /\ panicked = "no")


\* C22: the heater scenario, each value published when the engine has
\* handled the one before: after Temp 1 = 18 and enabled = true heaterOn has
\* fired once; Temp 1 = 17 and then enabled = false add no firing; enabled =
\* true again adds exactly one.
Scenario ==
  << <<"Weather/Temp 1", 18>>, <<"stabSettings/enabled", TRUE>>,
     <<"Weather/Temp 1", 17>>, <<"stabSettings/enabled", FALSE>>,
     <<"stabSettings/enabled", TRUE>> >>
ScenarioFires == <<0, 1, 1, 1, 2>>
\* the first values delivered are those of the scenario, in its order
InScenario(log) ==
  /\ Len(log) <= Len(Scenario)
  /\ \A k \in 1..Len(log) :
       log[k][1] = Scenario[k][1] /\ log[k][2] = Scenario[k][2]
C22_HeaterScenario ==
  (/\ heater.started /\ heater.quiet /\ heater.queue = <<>> /\ ~heater.echo
   /\ Len(heater.log) >= 2 /\ InScenario(heater.log)) =>
    heater.fires = ScenarioFires[Len(heater.log)]
C22_Witness ==
  /\ heater.quiet /\ heater.queue = <<>> /\ ~heater.echo
  /\ Len(heater.log) = Len(Scenario) /\ InScenario(heater.log)
  /\ heater.fires = 2


\* C23: a primitive call that is rejected leaves the engine state as it was:
\* the callback lists ruleFuncs, processes and ruleEngineTimers, the handle
\* counter, the timer table and the index from cells to rules are the same
\* after a rejected defineRule as before it.
C23_RejectedCallChangesNothing ==
  [][Rejected =>
       /\ ruleFuncs' = ruleFuncs
       /\ processes' = processes
       /\ timerCallbacks' = timerCallbacks
       /\ callbackIndex' = callbackIndex
       /\ timers' = timers
       /\ cellToRuleMap' = cellToRuleMap]_vars


\* the step just taken is RunRules(cellSpec) starting a pass for a cell that
\* is not complete
IncompletePassStarts ==
  /\ Len(stack') = Len(stack) + 1
  /\ stack'[Len(stack')].cell # NoCell
  /\ ~cellComplete[stack'[Len(stack')].cell]

\* C24: RunRules(cellSpec) for a cell that is not complete marks no rule:
\* neither the rules of cellToRuleMap[cell] nor those of rulesWithoutCells
\* have shouldCheck set by it.
C24_IncompleteCellMarksNothing ==
  [][IncompletePassStarts =>
       \A o \in 1..Len(rules) :
          rules'[o].shouldCheck = rules[o].shouldCheck]_vars

\* C24, amended: RunRules(cellSpec) for a cell that is not complete marks
\* the rules of rulesWithoutCells and no others: a rule has shouldCheck set
\* after the marking iff it was in rulesWithoutCells or had it set before;
\* and Check evaluates a condition in a pass for a cell only if the rule has
\* shouldCheck set.
C24_IncompleteCellMarksOnlyNoCellRules ==
  [][/\ IncompletePassStarts =>
          \A o \in 1..Len(rules) :
             rules'[o].shouldCheck <=>
               (rules[o].shouldCheck \/ o \in rulesWithoutCells)
     /\ (ev'.obj # 0 /\ ev'.evaluated /\ ev'.cell # NoCell) =>
          rules[ev'.obj].shouldCheck]_vars
C24_Witness ==
  /\ stack # <<>> /\ Top.cell # NoCell /\ ~cellComplete[Top.cell]
  /\ Top.i = 1 /\ Top.body = 0
  /\ \E o \in rulesWithoutCells : rules[o].shouldCheck /\ o \in Registered
  /\ \E o \in Range(cellToRuleMap[Top.cell]) :
       ~rules[o].shouldCheck /\ o \in Registered


\* C25: every rule the registry leads to, from a name of the rule list
\* through the name-to-rule map, is not destroyed, and Check never fails with
\* "invoking a destroyed rule", also when rule bodies redefine rules during a
\* pass.
C25_RegistryHoldsNoDestroyedRule ==
  /\ \A k \in 1..Len(ruleList) :
       /\ ruleMap[ruleList[k]] # 0
       /\ rules[ruleMap[ruleList[k]]].ruleType # RULE_TYPE_NONE
  /\ panicked # "invoking a destroyed rule"
  /\ Checked => ev.type # RULE_TYPE_NONE
C25_Witness ==
  /\ Checked /\ ev.depth >= 1
  /\ \E o \in 1..Len(rules) :
       /\ gh[o].ok /\ rules[o].ruleType = RULE_TYPE_NONE
       /\ ruleMap[rules[o].name] = ev.obj
       /\ ev.obj > o /\ ~ev.atStart


\* C26: the closure of a tick that was handed to the engine loop before its
\* timer was stopped invokes no callback and leaves the timer table and the
\* callback list as they are, whatever was stopped or started in between.
C26_StaleTickIsNoOp ==
  [][(tev'.kind = "fire" /\ tev'.w \in inFlight) =>
       /\ tev'.invoked = 0
       /\ timers' = timers
       /\ timerCallbacks' = timerCallbacks]_vars


\* C27: the timer table and the timer callback list are written only on the
\* engine thread, by a primitive a script calls or by a closure run through
\* CallSync: no goroutine changes them itself.
C27_EngineThreadOnly ==
  [][(timers' # timers \/ timerCallbacks' # timerCallbacks) =>
       tev'.thread = "engine"]_vars


\* a rule that was registered and has been destroyed by a redefinition
Replaced(o) == gh[o].ok /\ rules[o].ruleType = RULE_TYPE_NONE

\* C28: a rule destroyed by a redefinition is in no list of the index from
\* cells to rules and not in rulesWithoutCells; and the index entries of a
\* rule that is alive are only ever appended to.
C28_DestroyClearsIndexes ==
  [][/\ \A o \in 1..Len(rules') :
          Replaced(o)' =>
            /\ o \notin rulesWithoutCells'
            /\ \A c \in KnownCells : o \notin Range(cellToRuleMap'[c])
     /\ \A c \in KnownCells :
          IsPrefix(SelectSeq(cellToRuleMap[c],
                             LAMBDA o : rules'[o].ruleType # RULE_TYPE_NONE),
                   SelectSeq(cellToRuleMap'[c],
                             LAMBDA o : rules'[o].ruleType # RULE_TYPE_NONE))
    ]_vars


\* C29: rulesWithoutCells holds exactly the rules whose latest condition
\* evaluation read no cell: an evaluation that reads no cell puts the rule
\* in, one that reads a cell leaves the rule out of the set, and nothing else
\* changes the set.
C29_RulesWithoutCellsIsLatest ==
  [][/\ (ev'.obj # 0 /\ ev'.evaluated) =>
          (ev'.obj \in rulesWithoutCells' <=> ev'.noted = {})
     /\ rulesWithoutCells' # rulesWithoutCells =>
          (ev'.obj # 0 /\ ev'.evaluated)]_vars


\* C30: no two active timers share an id: for every id at most one timer
\* that was started and neither stopped nor fired as one-shot holds it, and
\* that timer has its own entry in the timer table and its own callback
\* under the id.
C30_ActiveTimersHaveOwnId ==
  \A n \in 1..MaxTimers :
    /\ Cardinality(ActiveWith(n)) <= 1
    /\ \A w \in ActiveWith(n) :
         /\ n <= Len(timers) /\ timers[n] = w
         /\ n \in DOMAIN timerCallbacks /\ timerCallbacks[n] = w


\* C31: a level- or edge-triggered rule whose condition has never been
\* evaluated is skipped by Check in every pass for a cell, whichever cell it
\* is; the first evaluation of a condition happens in a pass without a cell.
C31_UnevaluatedRuleSkipped ==
  (/\ Checked /\ ev.cell # NoCell /\ ev.prevWas = "none"
   /\ ev.type \in {RULE_TYPE_LEVEL_TRIGGERED, RULE_TYPE_EDGE_TRIGGERED}) =>
    (ev.skipped /\ ~ev.evaluated /\ ev.fired = 0)
C31_Witness ==
  /\ Checked /\ ev.cell # NoCell /\ ev.complete /\ ev.prevWas = "none"
  /\ ev.type \in {RULE_TYPE_LEVEL_TRIGGERED, RULE_TYPE_EDGE_TRIGGERED}
  /\ ev.skipped /\ ev.depth = 1
  /\ rulesWithoutCells # {}


\* the rule list names each rule once, names exactly the keys of the
\* name-to-rule map, and every registered rule has a body handle that is in
\* the callback list
RegistryConsistent ==
  /\ \A j, k \in 1..Len(ruleList) : ruleList[j] = ruleList[k] => j = k
  /\ Range(ruleList) = {n \in Names : ruleMap[n] # 0}
  /\ \A n \in Range(ruleList) :
       /\ rules[ruleMap[n]].name = n
       /\ rules[ruleMap[n]].then # 0
       /\ rules[ruleMap[n]].then \in ruleFuncs

\* C32: in every state the registry is consistent, and no step removes a
\* name from the rule list or changes the order of its names.
C32_RegistryConsistency ==
  [][RegistryConsistent' /\ IsPrefix(ruleList, ruleList')]_vars
C32_Witness ==
  /\ Len(ruleList) = 2
  /\ \E o \in 1..Len(rules) : Replaced(o) /\ rules[o].name = ruleList[1]

\* a condition is running in some pass of the stack
CondRunning == \E k \in 1..Len(stack) : stack[k].cond # 0

\* C33: dependency tracking is armed only while a condition is being
\* evaluated: notedCells is nil whenever no condition is running, and a
\* cell a rule body accesses is never noted
C33_TrackingOnlyInCondition ==
  [][/\ (notedCells' # Nil => CondRunning')
     /\ (ev'.access # NoCell => notedCells = Nil)]_vars

EdgeRules ==
  {o \in 1..Len(rules) : rules[o].ruleType = RULE_TYPE_EDGE_TRIGGERED}

\* C34: an edge rule that has firstRun set has prevCondValue false, so its
\* firing decision current && (firstRun || current != prevCondValue) is
\* current && !prevCondValue whatever the condition returns
C34_FirstRunImpliesPrevFalse ==
  \A o \in EdgeRules :
    /\ rules[o].firstRun => ~rules[o].prevCondValue
    /\ \A current \in BOOLEAN :
         EdgeShouldFire(rules[o], current)
           <=> (current /\ ~rules[o].prevCondValue)

\* an edge rule whose condition was true at its last evaluation next to one
\* that was not evaluated yet, the step being an evaluation of an edge rule
\* in its first run
C34_Witness ==
  /\ \E o, q \in EdgeRules :
       /\ rules[o].firstRun /\ ~rules[o].prevCondValue
       /\ ~rules[q].firstRun /\ rules[q].prevCondValue
  /\ Checked /\ ev.evaluated /\ ev.type = RULE_TYPE_EDGE_TRIGGERED
  /\ ev.prevWas = "none" /\ ev.cur /\ ev.fired = 1

====
